---- MODULE Spec2Model ----
(***************************************************************************)
(* Model of pomodoro.py: the TimeDisplay countdown widget, the Pomodoro    *)
(* sequencer that owns it, and the SessionEnded messages in flight between *)
(* them.  Time is counted in whole seconds.  Every handler runs to its end *)
(* without interruption (one asyncio thread), so each is one action.  The  *)
(* handlers are short and synchronous: a posted SessionEnded is handled    *)
(* before the clock shows the next second, but button presses may be       *)
(* handled between its posting and its handling.                           *)
(***************************************************************************)
EXTENDS Integers, Sequences, FiniteSets, TLC

VARIABLES
    timer,        \* the TimeDisplay widget: its reactive fields, whether its interval
                  \* timer is paused, and its background style
    pomodoro,     \* the Pomodoro widget's reactive fields
    pending,      \* SessionEnded messages posted and not yet handled
    last,         \* history: the handler or method that ran last
    limit_reached, \* history: SessionEnded messages posted since the last button press
    chain_complete \* history: runs of handle_session_end's final branch since the
                   \* last accepted Start

vars == <<timer, pomodoro, pending, last, limit_reached, chain_complete>>

----------------------------------------------------------------------------
(* Bounds of the model *)

\* seconds the clock may run ahead of start_time
MaxDelta == 3
\* SessionEnded messages that may be in flight at once
MaxPending == 2
\* the history counters saturate here
MaxCount == 5

\* accumulated seconds up to which Stop and a tick at the limit are followed
\* (stop() adds since_start to total each time it runs)
MaxTotal == 2 * MaxDelta

(* Program constants *)
SecondsPerMinute == 60
DefaultStudyMinutes == 25
DefaultBreakMinutes == 5
DefaultSessions == 4

Min(a, b) == IF a < b THEN a ELSE b

----------------------------------------------------------------------------
(* Text of the Input widgets and int() *)

\* int(s) succeeds exactly on these texts
IntText == {"-1", "0", "1", "2"}

int(s) == CASE s = "-1" -> -1
            [] s = "0" -> 0
            [] s = "1" -> 1
            [] s = "2" -> 2

\* `value or default`: the empty text is falsy
OrDefault(value, default) == IF value = "" THEN default ELSE value

\* texts the user may have typed in each Input
StudyMinInputs == {"", "x"}
StudySecInputs == {"", "1"}
BreakMinInputs == {"0", "-1"}
BreakSecInputs == {"2", "x"}
SessionsInputs == {"", "0", "2", "x"}

\* The five texts at a click of Start.  The texts after the first one int()
\* rejects are never read: they are enumerated with one value each (Unread).
Unread == <<"", "", "0", "2", "">>

InputTexts ==
    {i \in StudyMinInputs \X StudySecInputs \X BreakMinInputs \X BreakSecInputs
            \X SessionsInputs :
        \A k \in 1..5 : i[k] = "x" => \A j \in (k + 1)..5 : i[j] = Unread[j]}

----------------------------------------------------------------------------
(* TimeDisplay *)

\* monotonic() - self.start_time is kept as one field, since_start: start()
\* sets it to 0 (start_time = monotonic()) and the passing of time raises it.
new_time(t) == t.total + t.since_start

\* faulty variant: the interval timer is not paused
stop_keeps_ticking(t) ==
    [t EXCEPT !.total = t.total + t.since_start,
              !.time = t.total + t.since_start]

\* faulty variant: the shown time is not set to the new total
stop_keeps_time(t) ==
    [t EXCEPT !.paused = TRUE,
              !.total = t.total + t.since_start]

stop(t) ==
    [t EXCEPT !.paused = TRUE,
              !.total = t.total + t.since_start,
              !.time = t.total + t.since_start]

\* faulty variant: the interval timer is not resumed
start_not_resumed(t) == [t EXCEPT !.since_start = 0]

\* faulty variant: start_time is not taken anew
start_keeps_start_time(t) == [t EXCEPT !.paused = FALSE]

start(t) == [t EXCEPT !.since_start = 0, !.paused = FALSE]

\* faulty variant: the shown time is not zeroed
reset_keeps_time(t) == [t EXCEPT !.total = 0]

reset(t) == [t EXCEPT !.total = 0, !.time = 0]

\* monotonic() read d seconds later
elapse(t, d) == [t EXCEPT !.since_start = @ + d]

\* faulty variant: a limit of 0 counts as a limit
LimitHit_zero_counts(t) == t.limit >= 0 /\ new_time(t) >= t.limit

\* the condition of update_time's first branch
LimitHit(t) == t.limit > 0 /\ new_time(t) >= t.limit

\* faulty variant: the limit is signalled without stopping
update_time_keeps_running(t) ==
    IF t.limit > 0 /\ new_time(t) >= t.limit
    THEN [t EXCEPT !.time = t.limit]
    ELSE [t EXCEPT !.time = new_time(t)]

\* update_time's effect on the widget; on_limit_reached's message is posted by Tick
update_time(t) ==
    IF LimitHit(t)
    THEN stop([t EXCEPT !.time = t.limit])
    ELSE [t EXCEPT !.time = new_time(t)]

----------------------------------------------------------------------------
(* Pomodoro *)

study_limit(p) == (p.study_minutes * SecondsPerMinute) + p.study_seconds
break_limit(p) == (p.break_minutes * SecondsPerMinute) + p.break_seconds

\* start_session's effect on the timer
start_session_timer(p, t, session_type) ==
    [start(reset([t EXCEPT !.session_type = session_type,
                           !.limit = IF session_type = "study"
                                     THEN study_limit(p)
                                     ELSE break_limit(p)]))
        EXCEPT !.background = IF session_type = "study" THEN "green" ELSE "red"]

\* start_session's effect on the Pomodoro widget
start_session_pomodoro(p, session_type) == [p EXCEPT !.session_type = session_type]

\* faulty variant: the decrement happens twice
break_ended_twice(p) == [p EXCEPT !.sessions_remaining = @ - 2]

\* handle_session_end's decrement when a break ends
break_ended(p) == [p EXCEPT !.sessions_remaining = @ - 1]

\* the try block of start_clicked: the fields are assigned in order and the
\* first text int() rejects raises ValueError, leaving the later ones alone
Fields == <<"study_minutes", "study_seconds", "break_minutes", "break_seconds", "sessions">>
Defaults == <<"0", "0", "0", "0", "1">>

RECURSIVE parse_inputs(_, _, _)
parse_inputs(p, inputs, i) ==
    IF i > Len(Fields) THEN [p |-> p, ok |-> TRUE]
    ELSE LET text == OrDefault(inputs[i], Defaults[i])
         IN IF text \in IntText
            THEN parse_inputs([p EXCEPT ![Fields[i]] = int(text)], inputs, i + 1)
            ELSE [p |-> p, ok |-> FALSE]

----------------------------------------------------------------------------
(* Initial state: the widgets as constructed and mounted *)

Init ==
    /\ timer = [since_start |-> 0, time |-> 0, total |-> 0, limit |-> 0,
                session_type |-> "study", paused |-> TRUE,
                background |-> "transparent"]
    /\ pomodoro = [study_minutes |-> DefaultStudyMinutes, study_seconds |-> 0,
                   break_minutes |-> DefaultBreakMinutes, break_seconds |-> 0,
                   sessions |-> DefaultSessions,
                   session_type |-> "study", sessions_remaining |-> 0]
    /\ pending = 0
    /\ last = "init"
    /\ limit_reached = 0
    /\ chain_complete = 0

----------------------------------------------------------------------------
(* Actions *)

\* a second of wall-clock time passes
Advance ==
    /\ timer.since_start < MaxDelta
    /\ pending = 0
    /\ timer' = elapse(timer, 1)
    /\ last' = "advance"
    /\ UNCHANGED <<pomodoro, pending, limit_reached, chain_complete>>

\* the interval timer fires update_time; a paused interval timer does not fire
Tick ==
    /\ ~timer.paused
    /\ LimitHit(timer) => (pending < MaxPending /\ new_time(timer) <= MaxTotal)
    /\ timer' = update_time(timer)
    /\ pending' = IF LimitHit(timer) THEN pending + 1 ELSE pending
    /\ limit_reached' = IF LimitHit(timer) THEN Min(limit_reached + 1, MaxCount)
                        ELSE limit_reached
    /\ last' = "update_time"
    /\ UNCHANGED <<pomodoro, chain_complete>>

\* start_clicked with the given texts in the five Inputs
StartWith(inputs) ==
    LET r == parse_inputs(pomodoro, inputs, 1)
        p == [r.p EXCEPT !.sessions_remaining = r.p.sessions]
    IN IF r.ok
       THEN /\ timer' = start_session_timer(p, timer, "study")
            /\ pomodoro' = start_session_pomodoro(p, "study")
            /\ last' = "start_clicked"
            /\ limit_reached' = 0
            /\ chain_complete' = 0
            /\ UNCHANGED pending
       ELSE /\ pomodoro' = r.p
            /\ last' = "bell"
            /\ limit_reached' = 0
            /\ UNCHANGED <<timer, pending, chain_complete>>

StartClicked ==
    \E inputs \in InputTexts : StartWith(inputs)

StopClicked ==
    /\ new_time(timer) <= MaxTotal
    /\ timer' = stop(timer)
    /\ last' = "stop_clicked"
    /\ limit_reached' = 0
    /\ UNCHANGED <<pomodoro, pending, chain_complete>>

ResetClicked ==
    /\ timer' = reset([stop(timer) EXCEPT !.background = "transparent"])
    /\ pomodoro' = [pomodoro EXCEPT !.sessions_remaining = pomodoro.sessions]
    /\ last' = "reset_clicked"
    /\ limit_reached' = 0
    /\ UNCHANGED <<pending, chain_complete>>

HandleSessionEnd ==
    /\ pending > 0
    /\ pending' = pending - 1
    /\ last' = "handle_session_end"
    /\ UNCHANGED limit_reached
    /\ IF pomodoro.session_type = "study"
       THEN /\ timer' = start_session_timer(pomodoro, timer, "break")
            /\ pomodoro' = start_session_pomodoro(pomodoro, "break")
            /\ UNCHANGED chain_complete
       ELSE LET p == break_ended(pomodoro)
            IN IF p.sessions_remaining > 0
               THEN /\ timer' = start_session_timer(p, timer, "study")
                    /\ pomodoro' = start_session_pomodoro(p, "study")
                    /\ UNCHANGED chain_complete
               ELSE /\ timer' = [stop(timer) EXCEPT !.background = "transparent"]
                    /\ pomodoro' = p
                    /\ chain_complete' = Min(chain_complete + 1, MaxCount)

Next ==
    \/ Advance
    \/ Tick
    \/ StartClicked
    \/ StopClicked
    \/ ResetClicked
    \/ HandleSessionEnd

Spec == Init /\ [][Next]_vars

----------------------------------------------------------------------------
(* One chain left to run: Start is clicked once, right after construction,  *)
(* and no button is pressed after it.  Time passes, the interval timer      *)
(* fires while it is running and every posted message is handled.           *)

Begin ==
    /\ last = "init"
    /\ StartClicked

NextChain ==
    \/ Begin
    \/ Advance
    \/ Tick
    \/ HandleSessionEnd

SpecChain ==
    /\ Init
    /\ [][NextChain]_vars
    /\ WF_vars(Advance)
    /\ WF_vars(Tick)
    /\ WF_vars(HandleSessionEnd)

----------------------------------------------------------------------------
(* The TimeDisplay widget alone: its methods called in any order, as its    *)
(* class allows, with the limit assigned as start_session assigns it.       *)

TimerLimits == {0, 1, 2}

CallStart ==
    /\ timer' = start(timer)
    /\ last' = "start"
    /\ UNCHANGED <<pomodoro, pending, limit_reached, chain_complete>>

CallStop ==
    /\ new_time(timer) <= MaxTotal
    /\ timer' = stop(timer)
    /\ last' = "stop"
    /\ UNCHANGED <<pomodoro, pending, limit_reached, chain_complete>>

CallReset ==
    /\ timer' = reset(timer)
    /\ last' = "reset"
    /\ limit_reached' = 0
    /\ UNCHANGED <<pomodoro, pending, chain_complete>>

SetLimit ==
    /\ \E l \in TimerLimits : timer' = [timer EXCEPT !.limit = l]
    /\ last' = "set_limit"
    /\ UNCHANGED <<pomodoro, pending, limit_reached, chain_complete>>

\* a posted SessionEnded leaves the queue (no Pomodoro handles it here)
Deliver ==
    /\ pending > 0
    /\ pending' = pending - 1
    /\ last' = "deliver"
    /\ UNCHANGED <<timer, pomodoro, limit_reached, chain_complete>>

NextTimer ==
    \/ Advance
    \/ Tick
    \/ CallStart
    \/ CallStop
    \/ CallReset
    \/ SetLimit
    \/ Deliver

SpecTimer == Init /\ [][NextTimer]_vars

----------------------------------------------------------------------------
(* The claims *)

\* the spec's currentSessionKind, read off the background start_session,
\* reset_clicked and handle_session_end set: green, red, transparent
Idle == timer.background = "transparent"

\* the timer as start_session leaves it: counting from zero against limit l
Restarted(t, l) ==
    t.total = 0 /\ t.time = 0 /\ t.since_start = 0 /\ ~t.paused /\ t.limit = l

\* C1: on the automatic steps (time passing, a tick, the handling of a
\* SessionEnded) sessions_remaining changes only when a break's message is
\* handled, and then by exactly 1.  Handling a study's message moves to break
\* with sessions_remaining unchanged and the timer restarted from zero with the
\* break limit; handling a break's message decrements sessions_remaining and,
\* if it is still > 0, moves to study with the timer restarted from zero with
\* the study limit.
C1_AutomaticTransitions ==
    [][ /\ (last' = "handle_session_end" /\ pomodoro.session_type = "study") =>
              /\ pomodoro'.session_type = "break"
              /\ pomodoro'.sessions_remaining = pomodoro.sessions_remaining
              /\ Restarted(timer', break_limit(pomodoro))
        /\ (last' = "handle_session_end" /\ pomodoro.session_type = "break") =>
              /\ pomodoro'.sessions_remaining = pomodoro.sessions_remaining - 1
              /\ pomodoro'.sessions_remaining > 0 =>
                    /\ pomodoro'.session_type = "study"
                    /\ Restarted(timer', study_limit(pomodoro))
        /\ (/\ last' \in {"advance", "update_time", "handle_session_end"}
            /\ pomodoro'.sessions_remaining # pomodoro.sessions_remaining) =>
              (last' = "handle_session_end" /\ pomodoro.session_type = "break")
      ]_vars

\* a break of a chain of two has just ended by its own tick and the second
\* study session runs
C1_Witness ==
    /\ last = "handle_session_end"
    /\ pomodoro.session_type = "study"
    /\ pomodoro.sessions = 2
    /\ pomodoro.sessions_remaining = 1
    /\ limit_reached = 2
    /\ Restarted(timer, study_limit(pomodoro))

\* C2: when the last break of a chain completes (sessions_remaining reaches
\* 0) the sequencer is Idle, the timer is stopped and sessions_remaining is 0;
\* from then on the timer stays stopped and no session is started until an
\* accepted Start.
C2_TerminalUntilStart ==
    [][ /\ (/\ last' = "handle_session_end"
            /\ pomodoro.session_type = "break"
            /\ pomodoro'.sessions_remaining = 0) =>
              (Idle' /\ timer'.paused /\ chain_complete' > 0)
        /\ (chain_complete > 0 /\ last' # "start_clicked") =>
              /\ timer'.paused
              /\ Idle'
              /\ pomodoro'.session_type = pomodoro.session_type
              /\ chain_complete' > 0
      ]_vars

\* the last break of a chain of two has completed, and Stop and Reset have
\* been pressed since
C2_Witness ==
    /\ chain_complete = 1
    /\ pomodoro.sessions = 2
    /\ last = "reset_clicked"
    /\ timer.paused
    /\ Idle

\* the chains C3 is about: both limits positive and within the seconds the
\* model's clock runs, and at least one session
ChainBegun ==
    /\ ~Idle \/ chain_complete > 0
    /\ study_limit(pomodoro) \in 1..MaxDelta
    /\ break_limit(pomodoro) \in 1..MaxDelta
    /\ pomodoro.sessions >= 1

ChainDone ==
    /\ chain_complete = 1
    /\ limit_reached = 2 * pomodoro.sessions
    /\ pending = 0
    /\ timer.paused
    /\ pomodoro.sessions_remaining = 0

\* C3: after Start with positive limits and N >= 1 sessions, with ticks firing
\* while the timer runs and no button pressed, the chain completes: exactly 2N
\* SessionEnded messages are posted, a study's and a break's in turn, the
\* chain completes exactly once, and the timer ends stopped with
\* sessions_remaining 0.
C3_ChainCompletes ==
    /\ ChainBegun ~> ChainDone
    /\ [](ChainBegun => /\ limit_reached <= 2 * pomodoro.sessions
                        /\ chain_complete <= 1
                        /\ (chain_complete = 1 => ChainDone))
    /\ [][(ChainBegun /\ limit_reached' = limit_reached + 1) =>
             (pomodoro.session_type = "study") = (limit_reached % 2 = 0)]_vars
    /\ [][(ChainBegun /\ ChainDone) => ChainDone']_vars

C3_Witness ==
    /\ ChainBegun
    /\ ChainDone
    /\ pomodoro.sessions = 2
    /\ limit_reached = 4

\* C4: whenever limit > 0, neither time nor total exceeds limit.
C4_ElapsedWithinLimit ==
    timer.limit > 0 => (timer.time <= timer.limit /\ timer.total <= timer.limit)

\* C5: a SessionEnded is posted only by a tick of the running timer that
\* finds the limit reached; that tick posts exactly one and pauses the interval
\* timer in the same step; a paused interval timer does not tick, and only
\* start() (in start_session) makes it run again.
C5_OncePerRun ==
    [][ /\ pending' > pending =>
              /\ last' = "update_time"
              /\ ~timer.paused
              /\ LimitHit(timer)
        /\ (last' = "update_time" /\ LimitHit(timer)) =>
              /\ pending' = pending + 1
              /\ timer'.paused
        /\ (last' = "update_time" /\ ~LimitHit(timer)) =>
              /\ pending' = pending
              /\ ~timer'.paused
        /\ timer.paused => last' # "update_time"
        /\ (timer.paused /\ ~timer'.paused) =>
              (last' \in {"start_clicked", "handle_session_end"}
                 /\ timer'.since_start = 0)
      ]_vars

\* the tick that found the limit reached has posted its message and paused
C5_Witness ==
    /\ last = "update_time"
    /\ timer.paused
    /\ pending = 1
    /\ limit_reached = 1
    /\ timer.limit > 0

\* C6: while limit is 0 a tick never posts SessionEnded, whatever the elapsed
\* time: it shows the new elapsed time, leaves the timer running and the
\* sequencer as it was.
C6_NoLimitNeverEnds ==
    [][(last' = "update_time" /\ timer.limit = 0) =>
          /\ pending' = pending
          /\ limit_reached' = limit_reached
          /\ ~timer'.paused
          /\ timer'.time = new_time(timer)
          /\ pomodoro' = pomodoro
      ]_vars

\* a study session of zero length has counted up to the clock's bound
C6_Witness ==
    /\ last = "update_time"
    /\ timer.limit = 0
    /\ timer.time = MaxDelta
    /\ ~timer.paused
    /\ pomodoro.session_type = "study"
    /\ pending = 0

\* C7: start() on a running timer leaves start_time and total as they are.
C7_StartIdempotent ==
    [][(last' = "start_clicked" /\ ~timer.paused) =>
          /\ timer'.since_start = timer.since_start
          /\ timer'.total = timer.total
      ]_vars

\* C8: stop() on a stopped timer changes neither total nor time.
C8_StopWhenStoppedNoOp ==
    [][(last' = "stop_clicked" /\ timer.paused) =>
          /\ timer'.total = timer.total
          /\ timer'.time = timer.time
      ]_vars

\* C9: a session paused mid-countdown by Stop and resumed by the control that
\* starts the timer continues: same session type, same sessions_remaining,
\* same accumulated time.
C9_PauseResumeContinues ==
    [][(/\ last = "stop_clicked"
        /\ ~Idle
        /\ timer.paused
        /\ 0 < timer.total /\ timer.total < timer.limit
        /\ pending = 0
        /\ last' = "start_clicked") =>
          /\ pomodoro'.session_type = pomodoro.session_type
          /\ pomodoro'.sessions_remaining = pomodoro.sessions_remaining
          /\ timer'.total = timer.total
      ]_vars

\* C10: for a running timer, stop() leaves total at the elapsed time of that
\* instant; a start() after it (however long the timer stayed stopped) keeps
\* total, and the elapsed time a later tick shows is total plus the seconds
\* since that start().
C10_StopStartRoundTrip ==
    ~timer.paused =>
        \A d1, d2 \in 0..MaxDelta :
            LET t1 == stop(timer)
                t2 == start(elapse(t1, d1))
                t3 == update_time(elapse(t2, d2))
            IN /\ t1.total = new_time(timer)
               /\ t2.total = t1.total
               /\ ~t2.paused
               /\ ~LimitHit(elapse(t2, d2)) => t3.time = t1.total + d2

\* a timer started again after a stop() that banked a second
C10_Witness ==
    /\ last = "start"
    /\ ~timer.paused
    /\ timer.total > 0
    /\ timer.time = timer.total
    /\ timer.since_start = 0

\* the five stored configuration values start_clicked assigns
Config(p) ==
    <<p.study_minutes, p.study_seconds, p.break_minutes, p.break_seconds,
      p.sessions>>

\* C11: a click of Start while a study or break session is active (running
\* or paused) changes nothing: sessions_remaining, the session type, the
\* stored configuration and the timer's limit, total and paused flag stay as
\* they were.
C11_BeginRejectedWhenActive ==
    [][(~Idle /\ last' \in {"start_clicked", "bell"}) =>
          /\ pomodoro'.sessions_remaining = pomodoro.sessions_remaining
          /\ pomodoro'.session_type = pomodoro.session_type
          /\ Config(pomodoro') = Config(pomodoro)
          /\ timer'.limit = timer.limit
          /\ timer'.total = timer.total
          /\ timer'.paused = timer.paused
          /\ timer'.background = timer.background
      ]_vars

\* texts int() accepts in all five Inputs, with a negative duration component
\* or fewer than one session
InvalidConfiguration(inputs) ==
    LET r == parse_inputs(pomodoro, inputs, 1)
    IN /\ r.ok
       /\ \/ r.p.study_minutes < 0 \/ r.p.study_seconds < 0
          \/ r.p.break_minutes < 0 \/ r.p.break_seconds < 0
          \/ r.p.sessions < 1

\* C12: a click of Start in Idle whose texts give a negative duration
\* component or fewer than one session has no effect: the sequencer stays
\* Idle, sessions_remaining is unchanged and the timer is neither reset,
\* given a new limit nor started.
C12_InvalidConfigurationRejected ==
    [][\A inputs \in InputTexts :
          (Idle /\ InvalidConfiguration(inputs) /\ StartWith(inputs)) =>
              /\ Idle'
              /\ pomodoro'.sessions_remaining = pomodoro.sessions_remaining
              /\ timer' = timer
      ]_vars

\* C13: a click of Start rejected because one of the texts does not parse
\* changes none of the five stored configuration values, whichever text is
\* the bad one, so a chain in progress keeps its limits.
C13_RejectedBeginAllOrNothing ==
    [][last' = "bell" =>
          /\ Config(pomodoro') = Config(pomodoro)
          /\ study_limit(pomodoro') = study_limit(pomodoro)
          /\ break_limit(pomodoro') = break_limit(pomodoro)
      ]_vars

\* C14: sessions_remaining is never negative.
C14_SessionsRemainingNonNegative ==
    pomodoro.sessions_remaining >= 0

C16_ResetRestartsCount ==
    [][(last' = "reset" /\ ~timer.paused) =>
          /\ ~timer'.paused
          /\ \A d \in 0..MaxDelta :
                ~LimitHit(elapse(timer', d)) =>
                    update_time(elapse(timer', d)).time = d
      ]_vars

\* C17: a SessionEnded posted before Reset and handled after it has no
\* effect: the timer stays stopped at zero, the sequencer stays Idle and no
\* session is started.
C17_StaleCompletionAfterReset ==
    [][(last = "reset_clicked" /\ last' = "handle_session_end") =>
          /\ timer'.paused
          /\ timer'.total = 0
          /\ timer'.time = 0
          /\ Idle'
          /\ pomodoro' = pomodoro
      ]_vars

\* C18: whenever a SessionEnded is handled, the timer of the current session
\* has reached its limit and stopped there.  In particular a message still
\* queued when Start begins a new chain does not end the new study session
\* and does not change the new chain's sessions_remaining.
C18_TransitionsCausedByCompletion ==
    [][ /\ last' = "handle_session_end" =>
              /\ timer.paused
              /\ timer.limit > 0
              /\ timer.total >= timer.limit
        /\ (last = "start_clicked" /\ last' = "handle_session_end") =>
              /\ pomodoro'.session_type = "study"
              /\ pomodoro'.sessions_remaining = pomodoro.sessions_remaining
              /\ timer' = timer
      ]_vars

\* C19: whenever the interval timer is paused, time equals total.
C19_StoppedShowsTotal ==
    timer.paused => timer.time = timer.total

\* a timer with limit 2, stopped by the tick that found the limit reached
\* after a stop() at one second and a second start()
C19_Witness ==
    /\ last = "update_time"
    /\ timer.paused
    /\ timer.limit = 2
    /\ timer.since_start = 1
    /\ timer.total = 2
    /\ timer.time = 2

====
